---- MODULE Spec2Model ----
(***************************************************************************)
(* LemmeWrite: the points ledger (the stored procedure                     *)
(* allocate_points_with_history), the PayPal webhook receiver and the      *)
(* client payment-success handler, over a PostgreSQL store running each    *)
(* request in its own READ COMMITTED transaction.                          *)
(*                                                                         *)
(* A stored procedure call is one transaction: its writes stay private     *)
(* (pend_points, pend_hist) until the Commit step that follows the         *)
(* function's return, a row it has written is locked against other         *)
(* writers until then (row_lock), and every statement reads what is        *)
(* committed at the time it runs plus the transaction's own writes.        *)
(* pg_advisory_lock / pg_advisory_unlock act on the session at once,       *)
(* independently of the transaction.                                       *)
(***************************************************************************)
EXTENDS Integers, Sequences, FiniteSets, Bags, TLC

\* ---------------------------------------------------------------- bounds
NProcs == 2

Procs == 1..NProcs

Users == {"U1", "U2"}

SubIds == {"S1", "S2"}

NoRow == [absent |-> TRUE]

None == 0

\* ------------------------------------------------------- program constants
\* user_points default written by the "ensure" insert
DefaultPoints == 50

\* the list without the type the function itself writes
CountedTypes_m ==
  {"webhook_points_allocation", "manual_points_allocation",
   "subscription_activated", "payment_completed"}

\* the event types the duplicate check counts as an allocation
CountedTypes ==
  {"webhook_points_allocation", "manual_points_allocation",
   "subscription_activated", "payment_completed", "atomic_allocation"}

\* what a direct caller of the stored procedure passes: points and plan amount
Offers == {[points |-> 1250, amount |-> 29], [points |-> 3500, amount |-> 79]}

\* user_points before the first request: U1 has spent 30 of the default 50
\* points, U2 has no row yet
InitPoints ==
  [u \in Users |->
     IF u = "U1" THEN [points_remaining |-> 20, points_total |-> 50, last_reset |-> 0]
     ELSE NoRow]

VARIABLES
  user_points,      \* committed table user_points: user -> row or NoRow
  payment_history,  \* committed table payment_history: a bag of rows
  advisory,         \* session advisory locks: lock key -> holder or None
  row_lock,         \* user -> the transaction holding an uncommitted write of the row
  clock,            \* now(): advances with every started request
  pc,               \* per request: where it is
  req,              \* per request: its arguments
  current_points,   \* plpgsql variable current_points
  new_total,        \* plpgsql variable new_total
  pend_points,      \* the transaction's uncommitted user_points row (or NoRow)
  pend_hist,        \* the transaction's uncommitted payment_history rows
  result,           \* what the call returned: "none", "true", "false", "error"
  init_points,      \* user_points as it was before the first request
  user_subscriptions, \* committed table user_subscriptions: subscription id -> row or NoRow
  sub_rows,         \* the number of user_subscriptions rows per paypal_subscription_id
  h_sub,            \* per request: the handler's local `subscription` (or NoRow)
  op_failed,        \* per request: some storage operation of the request returned an error
  response,         \* per request: the HTTP status answered (0: none yet)
  post_status,      \* table scheduled_posts: post id -> status
  publish_calls,    \* post id -> the number of publishToWordPress calls made for it
  runs,             \* the invocations of process-scheduled-posts started so far
  w_pc,             \* per invocation: where it is
  w_batch,          \* per invocation: the fetched posts not yet processed
  w_post,           \* per invocation: the post being processed and the publish result
  w_response        \* per invocation: the HTTP status answered (0: none yet)

\* the state only the webhook receiver and the client handler touch
hook_vars == <<user_subscriptions, sub_rows, h_sub, op_failed, response>>

\* the state only process-scheduled-posts touches
post_vars == <<post_status, publish_calls, runs, w_pc, w_batch, w_post, w_response>>

\* the state process-scheduled-posts leaves alone
billing_vars == <<user_points, payment_history, advisory, row_lock, clock, pc, req,
                  current_points, new_total, pend_points, pend_hist, result,
                  init_points, hook_vars>>

vars == <<billing_vars, post_vars>>

NoReq == [kind |-> "none"]

\* rows of scheduled_posts and the time each is scheduled for
PostIds == {"P1", "P2"}

ScheduledFor == [x \in PostIds |-> IF x = "P1" THEN 1 ELSE 2]

NoPost == [id |-> "(none)", success |-> FALSE]

\* lock_key := hash of target_user_id::text || subscription_id
LockKey(u, s) == <<u, s>>

LockKeys == {LockKey(u, s) : u \in Users, s \in SubIds}

\* points_total = new_total, as the function read before it used GREATEST
Max_m(a, b) == b

\* GREATEST(a, b)
Max(a, b) == IF a >= b THEN a ELSE b

\* a check that counts the user's records of every subscription
Counts_m(r, u, s) ==
  /\ r.user_id = u
  /\ r.event_type \in CountedTypes

\* a payment_history row counts for the duplicate check of (u, s)
Counts(r, u, s) ==
  /\ r.user_id = u
  /\ r.paypal_subscription_id = s
  /\ r.event_type \in CountedTypes

RECURSIVE BagSum(_, _)
BagSum(B, S) ==
  IF S = {} THEN 0
  ELSE LET r == CHOOSE x \in S : TRUE
       IN  B[r] + BagSum(B, S \ {r})

\* SELECT COUNT(*) ... WHERE user_id, paypal_subscription_id, event_type IN (...)
ExistingCount(hist, u, s) ==
  BagSum(hist, {r \in DOMAIN hist : Counts(r, u, s)})

\* a check that lets the first repetition through
AlreadyAllocated_m(hist, u, s) == ExistingCount(hist, u, s) > 1

\* IF existing_count > 0
AlreadyAllocated(hist, u, s) == ExistingCount(hist, u, s) > 0

\* the row a statement of transaction p sees for user u
VisibleRow(p, u) ==
  IF pend_points[p] # NoRow /\ req[p].user = u THEN pend_points[p] ELSE user_points[u]

HistRow(u, s, t, a) ==
  [user_id |-> u, paypal_subscription_id |-> s, event_type |-> t, amount |-> a]

Init ==
  /\ user_points = InitPoints
  /\ init_points = user_points
  /\ payment_history = EmptyBag
  /\ advisory = [k \in LockKeys |-> None]
  /\ row_lock = [u \in Users |-> None]
  /\ clock = 0
  /\ pc = [p \in Procs |-> "idle"]
  /\ req = [p \in Procs |-> NoReq]
  /\ current_points = [p \in Procs |-> 0]
  /\ new_total = [p \in Procs |-> 0]
  /\ pend_points = [p \in Procs |-> NoRow]
  /\ pend_hist = [p \in Procs |-> EmptyBag]
  /\ result = [p \in Procs |-> "none"]
  /\ user_subscriptions = [s \in SubIds |-> NoRow]
  /\ sub_rows = [s \in SubIds |-> 0]
  /\ h_sub = [p \in Procs |-> NoRow]
  /\ op_failed = [p \in Procs |-> FALSE]
  /\ response = [p \in Procs |-> 0]
  /\ post_status = [x \in PostIds |-> "pending"]
  /\ publish_calls = [x \in PostIds |-> 0]
  /\ runs = 0
  /\ w_pc = [p \in Procs |-> "idle"]
  /\ w_batch = [p \in Procs |-> {}]
  /\ w_post = [p \in Procs |-> NoPost]
  /\ w_response = [p \in Procs |-> 0]

\* requests are numbered in the order they start: p starts after 1..p-1
Earlier(p) == \A q \in Procs : q < p => pc[q] # "idle"

\* ------------------------------------------- allocate_points_with_history
\* supabase.rpc('allocate_points_with_history', ...) issued by a direct caller
CallAllocate(p) ==
  /\ pc[p] = "idle"
  /\ Earlier(p)
  /\ \E u \in Users, s \in SubIds, o \in Offers :
       req' = [req EXCEPT ![p] =
                 [kind |-> "rpc", user |-> u, sub |-> s, points |-> o.points,
                  amount |-> o.amount, now |-> clock + 1]]
  /\ clock' = clock + 1
  /\ pc' = [pc EXCEPT ![p] = "apwh_lock"]
  /\ UNCHANGED <<user_points, payment_history, advisory, row_lock, current_points,
                 new_total, pend_points, pend_hist, result, init_points, post_vars, hook_vars>>

\* where a request continues once the stored procedure's transaction has ended
AfterRpc(p) ==
  IF req[p].kind = "webhook"
  THEN (IF req[p].event_type = "PAYMENT.SALE.COMPLETED" THEN "pc_insert" ELSE "respond_ok")
  ELSE "done"

\* a lock call that returns without waiting for the holder
AcquireLock_m(p) ==
  /\ pc[p] = "apwh_lock"
  /\ advisory' = [advisory EXCEPT ![LockKey(req[p].user, req[p].sub)] = p]
  /\ pc' = [pc EXCEPT ![p] = "apwh_check"]
  /\ UNCHANGED <<user_points, payment_history, row_lock, clock, req, current_points,
                 new_total, pend_points, pend_hist, result, init_points, post_vars, hook_vars>>

\* PERFORM pg_advisory_lock(lock_key): waits while another session holds it
AcquireLock(p) ==
  /\ pc[p] = "apwh_lock"
  /\ advisory[LockKey(req[p].user, req[p].sub)] = None
  /\ advisory' = [advisory EXCEPT ![LockKey(req[p].user, req[p].sub)] = p]
  /\ pc' = [pc EXCEPT ![p] = "apwh_check"]
  /\ UNCHANGED <<user_points, payment_history, row_lock, clock, req, current_points,
                 new_total, pend_points, pend_hist, result, init_points, post_vars, hook_vars>>

\* an early return that forgets to unlock
CheckExisting_m(p) ==
  /\ pc[p] = "apwh_check"
  /\ IF AlreadyAllocated(payment_history, req[p].user, req[p].sub)
     THEN /\ result' = [result EXCEPT ![p] = "false"]
          /\ pc' = [pc EXCEPT ![p] = "apwh_commit"]
     ELSE /\ pc' = [pc EXCEPT ![p] = "apwh_ensure"]
          /\ UNCHANGED result
  /\ UNCHANGED <<user_points, payment_history, advisory, row_lock, clock, req,
                 current_points, new_total, pend_points, pend_hist, init_points, post_vars,
                 hook_vars>>

\* SELECT COUNT(*) INTO existing_count; IF existing_count > 0: unlock, RETURN false
CheckExisting(p) ==
  /\ pc[p] = "apwh_check"
  /\ IF AlreadyAllocated(payment_history, req[p].user, req[p].sub)
     THEN /\ advisory' = [advisory EXCEPT ![LockKey(req[p].user, req[p].sub)] = None]
          /\ result' = [result EXCEPT ![p] = "false"]
          /\ pc' = [pc EXCEPT ![p] = "apwh_commit"]
     ELSE /\ pc' = [pc EXCEPT ![p] = "apwh_ensure"]
          /\ UNCHANGED <<advisory, result>>
  /\ UNCHANGED <<user_points, payment_history, row_lock, clock, req, current_points,
                 new_total, pend_points, pend_hist, init_points, post_vars, hook_vars>>

\* an insert that overwrites an existing row with the default
EnsureRowAt_m(p, here, next) ==
  /\ pc[p] = here
  /\ LET u == req[p].user IN
     /\ row_lock[u] \in {None, p}
     /\ pend_points' = [pend_points EXCEPT ![p] =
          [points_remaining |-> DefaultPoints, points_total |-> DefaultPoints,
           last_reset |-> req[p].now]]
     /\ row_lock' = [row_lock EXCEPT ![u] = p]
  /\ pc' = [pc EXCEPT ![p] = next]
  /\ UNCHANGED <<user_points, payment_history, advisory, clock, req, current_points,
                 new_total, pend_hist, result, init_points, post_vars, hook_vars>>

\* INSERT INTO user_points ... VALUES (50, 50, now()) ON CONFLICT (user_id) DO NOTHING
EnsureRowAt(p, here, next) ==
  /\ pc[p] = here
  /\ LET u == req[p].user IN
     IF user_points[u] # NoRow
     THEN UNCHANGED <<pend_points, row_lock>>
     ELSE /\ row_lock[u] = None
          /\ pend_points' = [pend_points EXCEPT ![p] =
               [points_remaining |-> DefaultPoints, points_total |-> DefaultPoints,
                last_reset |-> req[p].now]]
          /\ row_lock' = [row_lock EXCEPT ![u] = p]
  /\ pc' = [pc EXCEPT ![p] = next]
  /\ UNCHANGED <<user_points, payment_history, advisory, clock, req, current_points,
                 new_total, pend_hist, result, init_points, post_vars, hook_vars>>

EnsureRow(p) == EnsureRowAt(p, "apwh_ensure", "apwh_read")

\* a function that takes the points away: new_total := current - add
ReadPointsAt_m(p, here, next) ==
  /\ pc[p] = here
  /\ LET row == VisibleRow(p, req[p].user)
         cur == IF row = NoRow THEN DefaultPoints ELSE row.points_remaining
     IN  /\ current_points' = [current_points EXCEPT ![p] = cur]
         /\ new_total' = [new_total EXCEPT ![p] = cur - req[p].points]
  /\ pc' = [pc EXCEPT ![p] = next]
  /\ UNCHANGED <<user_points, payment_history, advisory, row_lock, clock, req,
                 pend_points, pend_hist, result, init_points, post_vars, hook_vars>>

\* SELECT points_remaining INTO current_points; NULL -> 50; new_total := current + add
ReadPointsAt(p, here, next) ==
  /\ pc[p] = here
  /\ LET row == VisibleRow(p, req[p].user)
         cur == IF row = NoRow THEN DefaultPoints ELSE row.points_remaining
     IN  /\ current_points' = [current_points EXCEPT ![p] = cur]
         /\ new_total' = [new_total EXCEPT ![p] = cur + req[p].points]
  /\ pc' = [pc EXCEPT ![p] = next]
  /\ UNCHANGED <<user_points, payment_history, advisory, row_lock, clock, req,
                 pend_points, pend_hist, result, init_points, post_vars, hook_vars>>

ReadPoints(p) == ReadPointsAt(p, "apwh_read", "apwh_update")

\* UPDATE user_points SET points_remaining = new_total,
\*   points_total = GREATEST(points_total, new_total), last_reset = now()
UpdatePointsAt(p, here, next) ==
  /\ pc[p] = here
  /\ LET u == req[p].user
         row == VisibleRow(p, u)
     IN  /\ row_lock[u] \in {None, p}
         /\ IF row = NoRow
            THEN UNCHANGED <<pend_points, row_lock>>
            ELSE /\ pend_points' = [pend_points EXCEPT ![p] =
                      [points_remaining |-> new_total[p],
                       points_total |-> Max(row.points_total, new_total[p]),
                       last_reset |-> req[p].now]]
                 /\ row_lock' = [row_lock EXCEPT ![u] = p]
  /\ pc' = [pc EXCEPT ![p] = next]
  /\ UNCHANGED <<user_points, payment_history, advisory, clock, req, current_points,
                 new_total, pend_hist, result, init_points, post_vars, hook_vars>>

UpdatePoints(p) == UpdatePointsAt(p, "apwh_update", "apwh_insert")

\* INSERT INTO payment_history (..., 'atomic_allocation', plan_amount, ...)
InsertHistory(p) ==
  /\ pc[p] = "apwh_insert"
  /\ pend_hist' = [pend_hist EXCEPT ![p] =
       @ (+) SetToBag({HistRow(req[p].user, req[p].sub, "atomic_allocation",
                               req[p].amount)})]
  /\ pc' = [pc EXCEPT ![p] = "apwh_unlock"]
  /\ UNCHANGED <<user_points, payment_history, advisory, row_lock, clock, req,
                 current_points, new_total, pend_points, result, init_points, post_vars, hook_vars>>

\* a successful return that keeps the lock
Unlock_m(p) ==
  /\ pc[p] = "apwh_unlock"
  /\ result' = [result EXCEPT ![p] = "true"]
  /\ pc' = [pc EXCEPT ![p] = "apwh_commit"]
  /\ UNCHANGED <<user_points, payment_history, advisory, row_lock, clock, req,
                 current_points, new_total, pend_points, pend_hist, init_points, post_vars,
                 hook_vars>>

\* PERFORM pg_advisory_unlock(lock_key); RETURN true
Unlock(p) ==
  /\ pc[p] = "apwh_unlock"
  /\ advisory' = [advisory EXCEPT ![LockKey(req[p].user, req[p].sub)] = None]
  /\ result' = [result EXCEPT ![p] = "true"]
  /\ pc' = [pc EXCEPT ![p] = "apwh_commit"]
  /\ UNCHANGED <<user_points, payment_history, row_lock, clock, req, current_points,
                 new_total, pend_points, pend_hist, init_points, post_vars, hook_vars>>

\* a commit that makes the balance durable and loses the history row
Commit_m(p) ==
  /\ pc[p] = "apwh_commit"
  /\ user_points' =
       IF pend_points[p] = NoRow THEN user_points
       ELSE [user_points EXCEPT ![req[p].user] = pend_points[p]]
  /\ payment_history' = payment_history
  /\ row_lock' = [u \in Users |-> IF row_lock[u] = p THEN None ELSE row_lock[u]]
  /\ pend_points' = [pend_points EXCEPT ![p] = NoRow]
  /\ pend_hist' = [pend_hist EXCEPT ![p] = EmptyBag]
  /\ current_points' = [current_points EXCEPT ![p] = 0]
  /\ new_total' = [new_total EXCEPT ![p] = 0]
  /\ pc' = [pc EXCEPT ![p] = AfterRpc(p)]
  /\ UNCHANGED <<advisory, clock, req, result, init_points, post_vars, hook_vars>>

\* the transaction of the call commits after the function has returned
Commit(p) ==
  /\ pc[p] = "apwh_commit"
  /\ user_points' =
       IF pend_points[p] = NoRow THEN user_points
       ELSE [user_points EXCEPT ![req[p].user] = pend_points[p]]
  /\ payment_history' = payment_history (+) pend_hist[p]
  /\ row_lock' = [u \in Users |-> IF row_lock[u] = p THEN None ELSE row_lock[u]]
  /\ pend_points' = [pend_points EXCEPT ![p] = NoRow]
  /\ pend_hist' = [pend_hist EXCEPT ![p] = EmptyBag]
  /\ current_points' = [current_points EXCEPT ![p] = 0]
  /\ new_total' = [new_total EXCEPT ![p] = 0]
  /\ pc' = [pc EXCEPT ![p] = AfterRpc(p)]
  /\ UNCHANGED <<advisory, clock, req, result, init_points, post_vars, hook_vars>>

\* the statements inside the BEGIN ... EXCEPTION block
InBlock == {"apwh_check", "apwh_ensure", "apwh_read", "apwh_update", "apwh_insert"}

\* an error path that rolls back and raises but keeps the session's advisory lock
StorageError_m(p) ==
  /\ pc[p] \in InBlock
  /\ row_lock' = [u \in Users |-> IF row_lock[u] = p THEN None ELSE row_lock[u]]
  /\ pend_points' = [pend_points EXCEPT ![p] = NoRow]
  /\ pend_hist' = [pend_hist EXCEPT ![p] = EmptyBag]
  /\ result' = [result EXCEPT ![p] = "error"]
  /\ current_points' = [current_points EXCEPT ![p] = 0]
  /\ new_total' = [new_total EXCEPT ![p] = 0]
  /\ op_failed' = [op_failed EXCEPT ![p] = TRUE]
  /\ pc' = [pc EXCEPT ![p] = AfterRpc(p)]
  /\ UNCHANGED <<user_points, payment_history, advisory, clock, req, init_points, post_vars,
                 user_subscriptions, sub_rows, h_sub, response>>

\* EXCEPTION WHEN OTHERS: the block's writes are rolled back,
\* PERFORM pg_advisory_unlock(lock_key); RAISE  (the transaction aborts)
StorageError(p) ==
  /\ pc[p] \in InBlock
  /\ advisory' = [advisory EXCEPT ![LockKey(req[p].user, req[p].sub)] = None]
  /\ row_lock' = [u \in Users |-> IF row_lock[u] = p THEN None ELSE row_lock[u]]
  /\ pend_points' = [pend_points EXCEPT ![p] = NoRow]
  /\ pend_hist' = [pend_hist EXCEPT ![p] = EmptyBag]
  /\ result' = [result EXCEPT ![p] = "error"]
  /\ current_points' = [current_points EXCEPT ![p] = 0]
  /\ new_total' = [new_total EXCEPT ![p] = 0]
  /\ op_failed' = [op_failed EXCEPT ![p] = TRUE]
  /\ pc' = [pc EXCEPT ![p] = AfterRpc(p)]
  /\ UNCHANGED <<user_points, payment_history, clock, req, init_points, post_vars,
                 user_subscriptions, sub_rows, h_sub, response>>

Next ==
  \E p \in Procs :
    \/ CallAllocate(p)
    \/ AcquireLock(p)
    \/ CheckExisting(p)
    \/ EnsureRow(p)
    \/ ReadPoints(p)
    \/ UpdatePoints(p)
    \/ InsertHistory(p)
    \/ Unlock(p)
    \/ Commit(p)
    \/ StorageError(p)

Spec == Init /\ [][Next]_vars


\* the statements of a call that has not failed: each runs once it can
Proceed(p) ==
  \/ AcquireLock(p)
  \/ CheckExisting(p)
  \/ EnsureRow(p)
  \/ ReadPoints(p)
  \/ UpdatePoints(p)
  \/ InsertHistory(p)
  \/ Unlock(p)
  \/ Commit(p)

\* the database runs every session that is not waiting for a lock
SpecLive == Init /\ [][Next]_vars /\ \A p \in Procs : WF_vars(Proceed(p))

\* ------------------------------------------------------- webhook receiver
\* the requests (webhook deliveries and client runs) a behaviour may start
MaxRequests == 3

NoEmail == "(no email)"

\* user_profiles: email -> id
Profiles == [e \in {"u1@mail", "u2@mail"} |-> IF e = "u1@mail" THEN "U1" ELSE "U2"]

Emails == {"u1@mail", "nobody@mail", NoEmail}

\* a mapping that falls back to the first paid plan
PlanType_m(plan_id) ==
  CASE plan_id = "P-5ML4271244454362WXNWU5NQ" -> "pro"
    [] plan_id = "P-1GJ4899448696344MXNWU5NQ" -> "business"
    [] plan_id = "P-2RT4271244454362WXNWU5NQ" -> "enterprise"
    [] OTHER -> "pro"

\* planMapping of handleSubscriptionCreated; anything else is 'free'
PlanType(plan_id) ==
  CASE plan_id = "P-5ML4271244454362WXNWU5NQ" -> "pro"
    [] plan_id = "P-1GJ4899448696344MXNWU5NQ" -> "business"
    [] plan_id = "P-2RT4271244454362WXNWU5NQ" -> "enterprise"
    [] OTHER -> "free"

PlanIds == {"P-5ML4271244454362WXNWU5NQ", "P-UNKNOWN"}

\* a table that gives the pro plan the business allocation
PointsFor_m(plan_type) ==
  CASE plan_type = "free" -> 50
    [] plan_type = "pro" -> 3500
    [] plan_type = "business" -> 3500
    [] plan_type = "enterprise" -> 10000
    [] OTHER -> 50

\* pointsAllocation[plan_type] || 50
PointsFor(plan_type) ==
  CASE plan_type = "free" -> 50
    [] plan_type = "pro" -> 1250
    [] plan_type = "business" -> 3500
    [] plan_type = "enterprise" -> 10000
    [] OTHER -> 50

\* getAmountForPlan
AmountForPlan(plan_type) ==
  CASE plan_type = "pro" -> 29
    [] plan_type = "business" -> 79
    [] plan_type = "enterprise" -> 199
    [] OTHER -> 0

\* a NULL amount column
NullAmount == 0 - 1

LifecycleTypes ==
  {"BILLING.SUBSCRIPTION.ACTIVATED", "PAYMENT.SALE.COMPLETED",
   "BILLING.SUBSCRIPTION.CANCELLED", "BILLING.SUBSCRIPTION.SUSPENDED",
   "BILLING.SUBSCRIPTION.PAYMENT.FAILED", "CUSTOMER.DISPUTE.CREATED"}

\* the request bodies a sender may post; "(unparseable)" is a body req.json() rejects
Events ==
  {[event_type |-> "BILLING.SUBSCRIPTION.CREATED", sub |-> s, email |-> e, plan_id |-> pl] :
      s \in SubIds, e \in Emails, pl \in PlanIds}
  \cup {[event_type |-> t, sub |-> s, email |-> NoEmail, plan_id |-> "P-UNKNOWN"] :
      t \in LifecycleTypes, s \in SubIds}
  \cup {[event_type |-> "(unparseable)", sub |-> "S1", email |-> NoEmail,
         plan_id |-> "P-UNKNOWN"]}

\* the body parses and carries the id that correlates it with a user
WellFormed(ev) ==
  /\ ev.event_type # "(unparseable)"
  /\ ev.event_type = "BILLING.SUBSCRIPTION.CREATED" => ev.email # NoEmail

Free(p) == pc[p] \in {"idle", "done"}

\* the free request slots are taken in order
EarlierFree(p) == \A q \in Procs : q < p => ~Free(q)

\* a switch whose default branch throws
Dispatch_m(ev) ==
  CASE ev.event_type = "(unparseable)" -> "respond_err"
    [] ev.event_type = "BILLING.SUBSCRIPTION.CREATED" ->
         (IF ev.email = NoEmail THEN "respond_ok" ELSE "cr_find_user")
    [] ev.event_type = "BILLING.SUBSCRIPTION.ACTIVATED" -> "act_update"
    [] ev.event_type = "PAYMENT.SALE.COMPLETED" -> "pc_select"
    [] ev.event_type = "BILLING.SUBSCRIPTION.CANCELLED" -> "can_update"
    [] ev.event_type = "BILLING.SUBSCRIPTION.SUSPENDED" -> "sus_update"
    [] ev.event_type = "BILLING.SUBSCRIPTION.PAYMENT.FAILED" -> "pf_select"
    [] OTHER -> "respond_err"

\* the switch of the Deno.serve handler: where the request goes first
Dispatch(ev) ==
  CASE ev.event_type = "(unparseable)" -> "respond_err"
    [] ev.event_type = "BILLING.SUBSCRIPTION.CREATED" ->
         (IF ev.email = NoEmail THEN "respond_ok" ELSE "cr_find_user")
    [] ev.event_type = "BILLING.SUBSCRIPTION.ACTIVATED" -> "act_update"
    [] ev.event_type = "PAYMENT.SALE.COMPLETED" -> "pc_select"
    [] ev.event_type = "BILLING.SUBSCRIPTION.CANCELLED" -> "can_update"
    [] ev.event_type = "BILLING.SUBSCRIPTION.SUSPENDED" -> "sus_update"
    [] ev.event_type = "BILLING.SUBSCRIPTION.PAYMENT.FAILED" -> "pf_select"
    [] OTHER -> "respond_ok"

StatusOf(s) ==
  IF user_subscriptions[s] = NoRow THEN "(none)" ELSE user_subscriptions[s].status

\* a request slot starts afresh
ResetLocals(p) ==
  /\ current_points' = [current_points EXCEPT ![p] = 0]
  /\ new_total' = [new_total EXCEPT ![p] = 0]
  /\ result' = [result EXCEPT ![p] = "none"]
  /\ h_sub' = [h_sub EXCEPT ![p] = NoRow]
  /\ op_failed' = [op_failed EXCEPT ![p] = FALSE]
  /\ response' = [response EXCEPT ![p] = 0]

\* Deno.serve: a POST arrives, req.json() and the switch on event_type
Deliver(p) ==
  /\ Free(p) /\ EarlierFree(p)
  /\ clock < MaxRequests
  /\ \E ev \in Events :
       /\ req' = [req EXCEPT ![p] =
            [kind |-> "webhook", event_type |-> ev.event_type, sub |-> ev.sub,
             email |-> ev.email, plan_id |-> ev.plan_id, now |-> clock + 1,
             user |-> "(none)", points |-> 0, amount |-> 0,
             well_formed |-> WellFormed(ev),
             status_at_delivery |-> StatusOf(ev.sub)]]
       /\ pc' = [pc EXCEPT ![p] = Dispatch(ev)]
  /\ clock' = clock + 1
  /\ ResetLocals(p)
  /\ UNCHANGED <<user_points, payment_history, advisory, row_lock, pend_points,
                 pend_hist, init_points, post_vars, user_subscriptions, sub_rows>>

\* the step of request p moves it to `next`, noting a failed storage operation
Goto(p, next, failed) ==
  /\ pc' = [pc EXCEPT ![p] = next]
  /\ op_failed' = [op_failed EXCEPT ![p] = @ \/ failed]

\* handleSubscriptionCreated: user_profiles .select('id').eq('email', email).single()
FindUser(p) ==
  /\ pc[p] = "cr_find_user"
  /\ \E ok \in BOOLEAN :
       IF ok /\ req[p].email \in DOMAIN Profiles
       THEN /\ req' = [req EXCEPT ![p].user = Profiles[req[p].email]]
            /\ Goto(p, "cr_upsert", FALSE)
       ELSE /\ Goto(p, "respond_ok", ~ok)
            /\ UNCHANGED req
  /\ UNCHANGED <<user_points, payment_history, advisory, row_lock, clock,
                 current_points, new_total, pend_points, pend_hist, result,
                 init_points, post_vars, user_subscriptions, sub_rows, h_sub, response>>

NewSubscription(u, plan, st, at) ==
  [user_id |-> u, plan_type |-> plan, status |-> st, activated_at |-> at,
   cancelled_at |-> FALSE, suspended_at |-> FALSE]

\* the insert against a table whose paypal_subscription_id is not UNIQUE: a
\* redelivered event adds a row, and the row read afterwards is the new one
InsertSubscription_m(p) ==
  /\ pc[p] = "cr_upsert"
  /\ \E ok \in BOOLEAN :
       /\ IF ok
          THEN /\ user_subscriptions' = [user_subscriptions EXCEPT ![req[p].sub] =
                    NewSubscription(req[p].user, PlanType(req[p].plan_id), "created",
                                    FALSE)]
               /\ sub_rows' = [sub_rows EXCEPT ![req[p].sub] = @ + 1]
          ELSE UNCHANGED <<user_subscriptions, sub_rows>>
       /\ Goto(p, "respond_ok", ~ok)
  /\ UNCHANGED <<user_points, payment_history, advisory, row_lock, clock, req,
                 current_points, new_total, pend_points, pend_hist, result,
                 init_points, post_vars, h_sub, response>>

\* handleSubscriptionCreated: user_subscriptions .upsert({... status: 'created'});
\* the conflict target is the primary key, paypal_subscription_id is UNIQUE:
\* the insert fails when a row with that id exists
InsertSubscription(p) ==
  /\ pc[p] = "cr_upsert"
  /\ \E ok \in BOOLEAN :
       /\ IF ok /\ sub_rows[req[p].sub] = 0
          THEN /\ user_subscriptions' = [user_subscriptions EXCEPT ![req[p].sub] =
                    NewSubscription(req[p].user, PlanType(req[p].plan_id), "created",
                                    FALSE)]
               /\ sub_rows' = [sub_rows EXCEPT ![req[p].sub] = @ + 1]
          ELSE UNCHANGED <<user_subscriptions, sub_rows>>
       /\ Goto(p, "respond_ok", ~ok)
  /\ UNCHANGED <<user_points, payment_history, advisory, row_lock, clock, req,
                 current_points, new_total, pend_points, pend_hist, result,
                 init_points, post_vars, h_sub, response>>

\* an update without its WHERE clause: every record is set
SetStatus_m(s, st, stamp) ==
  [x \in SubIds |->
     IF user_subscriptions[x] = NoRow THEN NoRow
     ELSE [user_subscriptions[x] EXCEPT
             !.status = st,
             !.activated_at = IF stamp = "activated_at" THEN TRUE ELSE @,
             !.cancelled_at = IF stamp = "cancelled_at" THEN TRUE ELSE @,
             !.suspended_at = IF stamp = "suspended_at" THEN TRUE ELSE @]]

\* UPDATE user_subscriptions SET status = st, <stamp> = <a time>
\* WHERE paypal_subscription_id = s; a timestamp column is FALSE while NULL
SetStatus(s, st, stamp) ==
  IF user_subscriptions[s] = NoRow THEN user_subscriptions
  ELSE [user_subscriptions EXCEPT
          ![s].status = st,
          ![s].activated_at = IF stamp = "activated_at" THEN TRUE ELSE @,
          ![s].cancelled_at = IF stamp = "cancelled_at" THEN TRUE ELSE @,
          ![s].suspended_at = IF stamp = "suspended_at" THEN TRUE ELSE @]

\* a handler that goes on to the allocation after a failed status update
ActivateSubscription_m(p) ==
  /\ pc[p] = "act_update"
  /\ \E ok \in BOOLEAN :
       IF ok
       THEN /\ user_subscriptions' =
                 SetStatus(req[p].sub, "active", "activated_at")
            /\ UNCHANGED sub_rows
            /\ Goto(p, "aps_select", FALSE)
       ELSE /\ UNCHANGED <<user_subscriptions, sub_rows>>
            /\ Goto(p, "aps_select", TRUE)
  /\ UNCHANGED <<user_points, payment_history, advisory, row_lock, clock, req,
                 current_points, new_total, pend_points, pend_hist, result,
                 init_points, post_vars, h_sub, response>>

\* handleSubscriptionActivated: update status 'active'; on error return,
\* otherwise allocatePointsForSubscription
ActivateSubscription(p) ==
  /\ pc[p] = "act_update"
  /\ \E ok \in BOOLEAN :
       IF ok
       THEN /\ user_subscriptions' =
                 SetStatus(req[p].sub, "active", "activated_at")
            /\ UNCHANGED sub_rows
            /\ Goto(p, "aps_select", FALSE)
       ELSE /\ UNCHANGED <<user_subscriptions, sub_rows>>
            /\ Goto(p, "respond_ok", TRUE)
  /\ UNCHANGED <<user_points, payment_history, advisory, row_lock, clock, req,
                 current_points, new_total, pend_points, pend_hist, result,
                 init_points, post_vars, h_sub, response>>

\* handlePaymentCompleted: select user_id, plan_type .single(); not found: return
SelectSubscription(p) ==
  /\ pc[p] = "pc_select"
  /\ \E ok \in BOOLEAN :
       IF ok /\ user_subscriptions[req[p].sub] # NoRow
       THEN /\ h_sub' = [h_sub EXCEPT ![p] =
                 [user_id |-> user_subscriptions[req[p].sub].user_id,
                  plan_type |-> user_subscriptions[req[p].sub].plan_type]]
            /\ Goto(p, "aps_select", FALSE)
       ELSE /\ UNCHANGED h_sub
            /\ Goto(p, "respond_ok", ~ok)
  /\ UNCHANGED <<user_points, payment_history, advisory, row_lock, clock, req,
                 current_points, new_total, pend_points, pend_hist, result,
                 init_points, post_vars, user_subscriptions, sub_rows, response>>

\* allocatePointsForSubscription: select the subscription, look the points up and
\* call supabase.rpc('allocate_points_with_history', ...); not found: return
SelectForAllocation(p) ==
  /\ pc[p] = "aps_select"
  /\ \E ok \in BOOLEAN :
       IF ok /\ user_subscriptions[req[p].sub] # NoRow
       THEN /\ req' = [req EXCEPT
                 ![p].user = user_subscriptions[req[p].sub].user_id,
                 ![p].points = PointsFor(user_subscriptions[req[p].sub].plan_type),
                 ![p].amount = AmountForPlan(user_subscriptions[req[p].sub].plan_type)]
            /\ Goto(p, "apwh_lock", FALSE)
       ELSE /\ UNCHANGED req
            /\ Goto(p, AfterRpc(p), ~ok)
  /\ UNCHANGED <<user_points, payment_history, advisory, row_lock, clock,
                 current_points, new_total, pend_points, pend_hist, result,
                 init_points, post_vars, user_subscriptions, sub_rows, h_sub, response>>

\* handlePaymentCompleted: payment_history .insert({... event_type: 'payment_completed'})
LogPayment(p) ==
  /\ pc[p] = "pc_insert"
  /\ \E ok \in BOOLEAN :
       /\ IF ok
          THEN payment_history' = payment_history (+)
                 SetToBag({HistRow(h_sub[p].user_id, req[p].sub, "payment_completed",
                                   AmountForPlan(h_sub[p].plan_type))})
          ELSE UNCHANGED payment_history
       /\ Goto(p, "respond_ok", ~ok)
  /\ UNCHANGED <<user_points, advisory, row_lock, clock, req, current_points,
                 new_total, pend_points, pend_hist, result, init_points, post_vars,
                 user_subscriptions, sub_rows, h_sub, response>>

\* handleSubscriptionCancelled: update status 'cancelled', cancelled_at
CancelSubscription(p) ==
  /\ pc[p] = "can_update"
  /\ \E ok \in BOOLEAN :
       /\ IF ok
          THEN /\ user_subscriptions' =
                    SetStatus(req[p].sub, "cancelled", "cancelled_at")
               /\ UNCHANGED sub_rows
          ELSE UNCHANGED <<user_subscriptions, sub_rows>>
       /\ Goto(p, "respond_ok", ~ok)
  /\ UNCHANGED <<user_points, payment_history, advisory, row_lock, clock, req,
                 current_points, new_total, pend_points, pend_hist, result,
                 init_points, post_vars, h_sub, response>>

\* handleSubscriptionSuspended: update status 'suspended', suspended_at
SuspendSubscription(p) ==
  /\ pc[p] = "sus_update"
  /\ \E ok \in BOOLEAN :
       /\ IF ok
          THEN /\ user_subscriptions' =
                    SetStatus(req[p].sub, "suspended", "suspended_at")
               /\ UNCHANGED sub_rows
          ELSE UNCHANGED <<user_subscriptions, sub_rows>>
       /\ Goto(p, "respond_ok", ~ok)
  /\ UNCHANGED <<user_points, payment_history, advisory, row_lock, clock, req,
                 current_points, new_total, pend_points, pend_hist, result,
                 init_points, post_vars, h_sub, response>>

\* handlePaymentFailed: select user_id .single(); not found: return
SelectForFailure(p) ==
  /\ pc[p] = "pf_select"
  /\ \E ok \in BOOLEAN :
       IF ok /\ user_subscriptions[req[p].sub] # NoRow
       THEN /\ h_sub' = [h_sub EXCEPT ![p] =
                 [user_id |-> user_subscriptions[req[p].sub].user_id,
                  plan_type |-> user_subscriptions[req[p].sub].plan_type]]
            /\ Goto(p, "pf_insert", FALSE)
       ELSE /\ UNCHANGED h_sub
            /\ Goto(p, "respond_ok", ~ok)
  /\ UNCHANGED <<user_points, payment_history, advisory, row_lock, clock, req,
                 current_points, new_total, pend_points, pend_hist, result,
                 init_points, post_vars, user_subscriptions, sub_rows, response>>

\* a handler that logs the failure under the type of a completed payment
LogFailedPayment_m(p) ==
  /\ pc[p] = "pf_insert"
  /\ \E ok \in BOOLEAN :
       /\ IF ok
          THEN payment_history' = payment_history (+)
                 SetToBag({HistRow(h_sub[p].user_id, req[p].sub, "payment_completed",
                                   NullAmount)})
          ELSE UNCHANGED payment_history
       /\ Goto(p, "respond_ok", ~ok)
  /\ UNCHANGED <<user_points, advisory, row_lock, clock, req, current_points,
                 new_total, pend_points, pend_hist, result, init_points, post_vars,
                 user_subscriptions, sub_rows, h_sub, response>>

\* handlePaymentFailed: payment_history .insert({... event_type: 'payment_failed'})
LogFailedPayment(p) ==
  /\ pc[p] = "pf_insert"
  /\ \E ok \in BOOLEAN :
       /\ IF ok
          THEN payment_history' = payment_history (+)
                 SetToBag({HistRow(h_sub[p].user_id, req[p].sub, "payment_failed",
                                   NullAmount)})
          ELSE UNCHANGED payment_history
       /\ Goto(p, "respond_ok", ~ok)
  /\ UNCHANGED <<user_points, advisory, row_lock, clock, req, current_points,
                 new_total, pend_points, pend_hist, result, init_points, post_vars,
                 user_subscriptions, sub_rows, h_sub, response>>

\* a receiver that answers a suppressed duplicate as a failure
ResponseStatus_m(p) ==
  IF pc[p] = "respond_err" \/ result[p] = "false" THEN 500 ELSE 200

\* the status of the Response: 200 after the switch, 500 from the catch block
ResponseStatus(p) == IF pc[p] = "respond_err" THEN 500 ELSE 200

\* what is kept of an answered request: which event it was
Answered(r) ==
  [kind |-> "webhook", event_type |-> r.event_type, sub |-> r.sub,
   well_formed |-> r.well_formed, status_at_delivery |-> r.status_at_delivery]

\* Deno.serve: return new Response(...); the handler's locals are gone
Respond(p) ==
  /\ pc[p] \in {"respond_ok", "respond_err"}
  /\ response' = [response EXCEPT ![p] = ResponseStatus(p)]
  /\ pc' = [pc EXCEPT ![p] = "done"]
  /\ req' = [req EXCEPT ![p] = Answered(req[p])]
  /\ h_sub' = [h_sub EXCEPT ![p] = NoRow]
  /\ UNCHANGED <<user_points, payment_history, advisory, row_lock, clock,
                 current_points, new_total, pend_points, pend_hist, result,
                 init_points, post_vars, user_subscriptions, sub_rows, op_failed>>

WebhookStep(p) ==
  \/ Deliver(p)
  \/ FindUser(p)
  \/ InsertSubscription(p)
  \/ ActivateSubscription(p)
  \/ SelectSubscription(p)
  \/ SelectForAllocation(p)
  \/ LogPayment(p)
  \/ CancelSubscription(p)
  \/ SuspendSubscription(p)
  \/ SelectForFailure(p)
  \/ LogFailedPayment(p)
  \/ Respond(p)


\* -------------------------------------------------------- add_points_to_user
AddEnsureRow(p) == EnsureRowAt(p, "add_ensure", "add_read")

AddReadPoints(p) == ReadPointsAt(p, "add_read", "add_update")

AddUpdatePoints(p) == UpdatePointsAt(p, "add_update", "add_commit")

\* where the client handler continues after add_points_to_user:
\* pointsError is thrown, otherwise the payment is logged
AfterAdd(p, failed) ==
  IF failed \/ req[p].kind # "client" THEN "done" ELSE "cl_log"

\* RETURN new_total; the transaction of the call commits
AddCommit(p) ==
  /\ pc[p] = "add_commit"
  /\ user_points' =
       IF pend_points[p] = NoRow THEN user_points
       ELSE [user_points EXCEPT ![req[p].user] = pend_points[p]]
  /\ row_lock' = [u \in Users |-> IF row_lock[u] = p THEN None ELSE row_lock[u]]
  /\ pend_points' = [pend_points EXCEPT ![p] = NoRow]
  /\ current_points' = [current_points EXCEPT ![p] = 0]
  /\ new_total' = [new_total EXCEPT ![p] = 0]
  /\ result' = [result EXCEPT ![p] = "added"]
  /\ pc' = [pc EXCEPT ![p] = AfterAdd(p, FALSE)]
  /\ UNCHANGED <<payment_history, advisory, clock, req, pend_hist, init_points, post_vars,
                 hook_vars>>

\* a statement of add_points_to_user fails: the transaction aborts
AddStorageError(p) ==
  /\ pc[p] \in {"add_ensure", "add_read", "add_update", "add_commit"}
  /\ row_lock' = [u \in Users |-> IF row_lock[u] = p THEN None ELSE row_lock[u]]
  /\ pend_points' = [pend_points EXCEPT ![p] = NoRow]
  /\ current_points' = [current_points EXCEPT ![p] = 0]
  /\ new_total' = [new_total EXCEPT ![p] = 0]
  /\ result' = [result EXCEPT ![p] = "error"]
  /\ op_failed' = [op_failed EXCEPT ![p] = TRUE]
  /\ pc' = [pc EXCEPT ![p] = AfterAdd(p, TRUE)]
  /\ UNCHANGED <<user_points, payment_history, advisory, clock, req, pend_hist,
                 init_points, post_vars, user_subscriptions, sub_rows, h_sub, response>>

\* ------------------------------------------------- client handlePaymentSuccess
\* the ?plan= parameter of the success page and what it selects; default pro
PlanParams == {"business", "(none)"}

ClientPlan(plan_param) ==
  CASE plan_param = "pro" -> "pro"
    [] plan_param = "business" -> "business"
    [] plan_param = "enterprise" -> "enterprise"
    [] OTHER -> "pro"

\* row level security: who may insert into payment_history
MayInsertHistory(role) == role = "service_role"

\* PaymentSuccess mounts with ?subscription_id= and a signed-in user
OpenSuccessPage(p) ==
  /\ Free(p) /\ EarlierFree(p)
  /\ clock < MaxRequests
  /\ \E u \in Users, s \in SubIds, pp \in PlanParams :
       req' = [req EXCEPT ![p] =
            [kind |-> "client", user |-> u, sub |-> s, plan_type |-> ClientPlan(pp),
             points |-> PointsFor(ClientPlan(pp)), now |-> clock + 1,
             status_at_delivery |-> StatusOf(s)]]
  /\ pc' = [pc EXCEPT ![p] = "cl_upsert"]
  /\ clock' = clock + 1
  /\ ResetLocals(p)
  /\ UNCHANGED <<user_points, payment_history, advisory, row_lock, pend_points,
                 pend_hist, init_points, post_vars, user_subscriptions, sub_rows>>

\* user_subscriptions .upsert({user_id, paypal_subscription_id, plan_type,
\* status: 'active', activated_at}, {onConflict: 'paypal_subscription_id'});
\* the policies let a user insert and update rows of their own only
UpsertSubscription(p) ==
  /\ pc[p] = "cl_upsert"
  /\ \E ok \in BOOLEAN :
       LET s == req[p].sub
           row == user_subscriptions[s]
       IN  IF ok /\ (row = NoRow \/ row.user_id = req[p].user)
           THEN /\ user_subscriptions' = [user_subscriptions EXCEPT ![s] =
                     IF row = NoRow
                     THEN NewSubscription(req[p].user, req[p].plan_type, "active", TRUE)
                     ELSE [row EXCEPT !.plan_type = req[p].plan_type,
                                      !.status = "active",
                                      !.activated_at = TRUE]]
                /\ sub_rows' = [sub_rows EXCEPT ![s] = IF row = NoRow THEN 1 ELSE @]
                /\ Goto(p, "add_ensure", FALSE)
           ELSE /\ UNCHANGED <<user_subscriptions, sub_rows>>
                /\ Goto(p, "done", ~ok)
  /\ UNCHANGED <<user_points, payment_history, advisory, row_lock, clock, req,
                 current_points, new_total, pend_points, pend_hist, result,
                 init_points, post_vars, h_sub, response>>

\* payment_history .insert({... event_type: 'subscription_activated'}) as the
\* signed-in user; an error is only logged
ClientLogPayment(p) ==
  /\ pc[p] = "cl_log"
  /\ \E ok \in BOOLEAN :
       /\ IF ok /\ MayInsertHistory("authenticated")
          THEN payment_history' = payment_history (+)
                 SetToBag({HistRow(req[p].user, req[p].sub, "subscription_activated",
                                   IF AmountForPlan(req[p].plan_type) = 0 THEN 29
                                   ELSE AmountForPlan(req[p].plan_type))})
          ELSE UNCHANGED payment_history
       /\ Goto(p, "done", ~ok)
  /\ UNCHANGED <<user_points, advisory, row_lock, clock, req, current_points,
                 new_total, pend_points, pend_hist, result, init_points, post_vars,
                 user_subscriptions, sub_rows, h_sub, response>>

ClientStep(p) ==
  \/ OpenSuccessPage(p)
  \/ UpsertSubscription(p)
  \/ AddEnsureRow(p)
  \/ AddReadPoints(p)
  \/ AddUpdatePoints(p)
  \/ AddCommit(p)
  \/ AddStorageError(p)
  \/ ClientLogPayment(p)

LedgerStep(p) ==
  \/ AcquireLock(p)
  \/ CheckExisting(p)
  \/ EnsureRow(p)
  \/ ReadPoints(p)
  \/ UpdatePoints(p)
  \/ InsertHistory(p)
  \/ Unlock(p)
  \/ Commit(p)
  \/ StorageError(p)

\* webhook deliveries, concurrently and in any order
NextHook == \E p \in Procs : WebhookStep(p) \/ LedgerStep(p)

SpecHook == Init /\ [][NextHook]_vars

\* webhook deliveries and runs of the client handler, concurrently and in any order
NextAll == \E p \in Procs : WebhookStep(p) \/ ClientStep(p) \/ LedgerStep(p)

SpecAll == Init /\ [][NextAll]_vars

\* ------------------------------------------------------------ sequential use
\* no other request is in progress
Quiet(p) == \A q \in Procs : q # p => pc[q] \in {"idle", "done"}

\* a caller that issues its call only when no other call is in progress
CallAllocateSeq(p) == Quiet(p) /\ CallAllocate(p)

NextSeq ==
  \E p \in Procs :
    \/ CallAllocateSeq(p)
    \/ AcquireLock(p)
    \/ CheckExisting(p)
    \/ EnsureRow(p)
    \/ ReadPoints(p)
    \/ UpdatePoints(p)
    \/ InsertHistory(p)
    \/ Unlock(p)
    \/ Commit(p)
    \/ StorageError(p)

SpecSeq == Init /\ [][NextSeq]_vars

\* ------------------------------------------------------- credit operations
\* supabase.rpc('add_points_to_user', ...) issued by a direct caller
CallAdd(p) ==
  /\ pc[p] = "idle"
  /\ Earlier(p)
  /\ \E u \in Users, o \in Offers :
       req' = [req EXCEPT ![p] =
                 [kind |-> "rpc_add", user |-> u, sub |-> "(none)",
                  points |-> o.points, amount |-> o.amount, now |-> clock + 1]]
  /\ clock' = clock + 1
  /\ pc' = [pc EXCEPT ![p] = "add_ensure"]
  /\ UNCHANGED <<user_points, payment_history, advisory, row_lock, current_points,
                 new_total, pend_points, pend_hist, result, init_points, post_vars, hook_vars>>

AddStep(p) ==
  \/ AddEnsureRow(p)
  \/ AddReadPoints(p)
  \/ AddUpdatePoints(p)
  \/ AddCommit(p)
  \/ AddStorageError(p)

\* direct calls of the two credit functions, concurrently and in any order
NextCredit ==
  \E p \in Procs :
    \/ CallAllocate(p)
    \/ CallAdd(p)
    \/ LedgerStep(p)
    \/ AddStep(p)

SpecCredit == Init /\ [][NextCredit]_vars

\* -------------------------------------------------- process-scheduled-posts
\* the invocations of the function a behaviour may start
MaxRuns == 3

\* .eq('status', 'pending').lte('scheduled_for', now).limit(10)
PostsToPublish(now) ==
  {x \in PostIds : post_status[x] = "pending" /\ ScheduledFor[x] <= now}

\* Deno.serve: an invocation starts and fetches the posts that are due;
\* on fetchError it answers 500
FetchPosts(p) ==
  /\ w_pc[p] \in {"idle", "done"}
  /\ \A q \in Procs : q < p => w_pc[q] # "idle"
  /\ runs < MaxRuns
  /\ runs' = runs + 1
  /\ \E ok \in BOOLEAN :
       IF ok
       THEN /\ w_batch' = [w_batch EXCEPT ![p] = PostsToPublish(runs + 1)]
            /\ w_pc' = [w_pc EXCEPT ![p] = "loop"]
            /\ w_response' = [w_response EXCEPT ![p] = 0]
       ELSE /\ w_batch' = [w_batch EXCEPT ![p] = {}]
            /\ w_pc' = [w_pc EXCEPT ![p] = "done"]
            /\ w_response' = [w_response EXCEPT ![p] = 500]
  /\ w_post' = [w_post EXCEPT ![p] = NoPost]
  /\ UNCHANGED <<post_status, publish_calls, billing_vars>>

\* for (const post of postsToPublish): await publishToWordPress(post), which
\* returns success or, having caught its error, failure
PublishPost(p) ==
  /\ w_pc[p] = "loop"
  /\ \E x \in w_batch[p], success \in BOOLEAN :
       /\ publish_calls' = [publish_calls EXCEPT ![x] = @ + 1]
       /\ w_post' = [w_post EXCEPT ![p] = [id |-> x, success |-> success]]
       /\ w_batch' = [w_batch EXCEPT ![p] = @ \ {x}]
  /\ w_pc' = [w_pc EXCEPT ![p] = "update"]
  /\ UNCHANGED <<post_status, runs, w_response, billing_vars>>

\* scheduled_posts .update({status: 'published' | 'failed', ...}).eq('id', post.id);
\* the result of the update is not looked at
UpdatePostStatus(p) ==
  /\ w_pc[p] = "update"
  /\ \E ok \in BOOLEAN :
       post_status' =
         IF ok
         THEN [post_status EXCEPT ![w_post[p].id] =
                 IF w_post[p].success THEN "published" ELSE "failed"]
         ELSE post_status
  /\ w_post' = [w_post EXCEPT ![p] = NoPost]
  /\ w_pc' = [w_pc EXCEPT ![p] = "loop"]
  /\ UNCHANGED <<publish_calls, runs, w_batch, w_response, billing_vars>>

\* the loop is over: return new Response({processed, results})
RespondPosts(p) ==
  /\ w_pc[p] = "loop"
  /\ w_batch[p] = {}
  /\ w_response' = [w_response EXCEPT ![p] = 200]
  /\ w_pc' = [w_pc EXCEPT ![p] = "done"]
  /\ UNCHANGED <<post_status, publish_calls, runs, w_batch, w_post, billing_vars>>

\* invocations of process-scheduled-posts, concurrently and one after another
NextPosts ==
  \E p \in Procs :
    \/ FetchPosts(p)
    \/ PublishPost(p)
    \/ UpdatePostStatus(p)
    \/ RespondPosts(p)

SpecPosts == Init /\ [][NextPosts]_vars

\* ------------------------------------------------------------------ claims
\* points_remaining of u before the first request (a missing row counts as the default)
Before(u) ==
  IF init_points[u] = NoRow THEN DefaultPoints ELSE init_points[u].points_remaining

\* the event kinds that count as an allocation
AllocationKinds ==
  {"webhook_points_allocation", "manual_points_allocation",
   "subscription_activated", "payment_completed", "atomic_allocation"}

\* the number of Allocation Records of (u, s) in payment_history
Records(u, s) ==
  BagSum(payment_history,
         {r \in DOMAIN payment_history :
            /\ r.user_id = u /\ r.paypal_subscription_id = s
            /\ r.event_type \in AllocationKinds})

HasRecord(u, s) == Records(u, s) >= 1

Ended(p) == pc[p] = "done"

IsAllocate(p) == req[p].kind = "rpc"

RECURSIVE SumPoints(_)
SumPoints(S) ==
  IF S = {} THEN 0
  ELSE LET p == CHOOSE x \in S : TRUE
       IN  req[p].points + SumPoints(S \ {p})

\* C1: when every call is allocate_points_with_history with one and the same
\* (user_id, subscription_id) and amount, and all of them have returned without
\* an error, exactly one allocation record exists for the key and
\* points_remaining is its initial value plus one amount.
C1_IdempotentCredit ==
  \A u \in Users, s \in SubIds, o \in Offers :
    (\A p \in Procs :
        /\ Ended(p) /\ IsAllocate(p) /\ result[p] # "error"
        /\ req[p].user = u /\ req[p].sub = s /\ req[p].points = o.points)
    => /\ Records(u, s) = 1
       /\ user_points[u] # NoRow
       /\ user_points[u].points_remaining = Before(u) + o.points

\* C3: when the calls are for one user with pairwise different subscription ids
\* and all have returned without an error, each returned true and
\* points_remaining is the initial value plus the sum of all the amounts.
C3_IsolationAcrossKeys ==
  \A u \in Users :
    (/\ \A p \in Procs :
          Ended(p) /\ IsAllocate(p) /\ result[p] # "error" /\ req[p].user = u
     /\ \A p, q \in Procs : p # q => req[p].sub # req[q].sub)
    => /\ \A p \in Procs : result[p] = "true"
       /\ user_points[u] # NoRow
       /\ user_points[u].points_remaining = Before(u) + SumPoints(Procs)

Key(p) == LockKey(req[p].user, req[p].sub)

SameKey(p, q) == IsAllocate(p) /\ IsAllocate(q) /\ Key(p) = Key(q)

\* the calls that have ended with allocated = true
Allocated(u, s) ==
  {p \in Procs : Ended(p) /\ IsAllocate(p) /\ result[p] = "true"
                 /\ req[p].user = u /\ req[p].sub = s}

AllocatedFor(u) == UNION {Allocated(u, s) : s \in SubIds}

Remaining(u) ==
  IF user_points[u] = NoRow THEN Before(u) ELSE user_points[u].points_remaining

\* C4: calls issued one after another.  A call that failed with a storage
\* error after taking the lock holds no lock, left no allocation record and
\* no balance change (records and balance account for the successful calls
\* only), and the next call for the same key that does not fail itself finds
\* the key not yet allocated and allocates it, exactly once.
C4_SafeRetry ==
  /\ \A p \in Procs :
       Ended(p) /\ result[p] = "error" =>
         /\ advisory[Key(p)] # p
         /\ row_lock[req[p].user] # p
  /\ \A u \in Users, s \in SubIds :
       /\ Records(u, s) = Cardinality(Allocated(u, s))
       /\ Cardinality(Allocated(u, s)) <= 1
  /\ \A u \in Users : Remaining(u) = Before(u) + SumPoints(AllocatedFor(u))
  /\ \A p, q \in Procs :
       (/\ p < q /\ SameKey(p, q)
        /\ Ended(p) /\ result[p] = "error"
        /\ Ended(q) /\ result[q] # "error"
        /\ Allocated(req[q].user, req[q].sub) \subseteq {q})
       => result[q] = "true"

\* a failed call followed by a successful retry of the same key
C4_Witness ==
  \E p, q \in Procs :
    /\ p < q /\ SameKey(p, q)
    /\ Ended(p) /\ result[p] = "error"
    /\ Ended(q) /\ result[q] = "true"
    /\ Records(req[q].user, req[q].sub) = 1

TablesUnchanged ==
  /\ user_points' = user_points
  /\ payment_history' = payment_history

\* C9: a call whose duplicate check runs when a counted record for its
\* (user_id, subscription_id) is already committed returns false unless the
\* check itself fails, and neither that step nor the end of the call changes
\* user_points (points_remaining, points_total, last_reset) or payment_history.
C9_DuplicateNoOp ==
  [][\A p \in Procs :
       /\ (/\ pc[p] = "apwh_check"
           /\ HasRecord(req[p].user, req[p].sub)
           /\ pc'[p] # pc[p])
          => /\ TablesUnchanged
             /\ \/ result'[p] = "false" /\ pc'[p] = "apwh_commit"
                \/ result'[p] = "error"
       /\ (/\ pc[p] = "apwh_commit"
           /\ result[p] = "false"
           /\ pc'[p] # pc[p])
          => /\ TablesUnchanged
             /\ result'[p] = "false"]_vars

\* a call for an already allocated key has ended with allocated = false
C9_Witness ==
  \E p \in Procs :
    /\ Ended(p) /\ IsAllocate(p) /\ result[p] = "false"
    /\ HasRecord(req[p].user, req[p].sub)

IsWebhook(p) == req[p].kind = "webhook"

CreditEvents == {"BILLING.SUBSCRIPTION.ACTIVATED", "PAYMENT.SALE.COMPLETED"}

\* C2: for each (user_id, paypal_subscription_id) payment_history holds at
\* most one row whose event_type counts as an allocation.
C2_UniqueAllocationRecord ==
  \A u \in Users, s \in SubIds : Records(u, s) <= 1

\* C5: an activation or payment-completed delivery during which the credit or
\* another storage operation failed is not answered with a 2xx status.
C5_FailureIsRetriable ==
  \A p \in Procs :
    (/\ Ended(p) /\ IsWebhook(p)
     /\ req[p].event_type \in CreditEvents
     /\ op_failed[p])
    => ~(response[p] \in 200..299)

\* C6: a subscription record whose status is cancelled or expired keeps
\* that status in every step.
C6_TerminalStates ==
  [][\A s \in SubIds :
       StatusOf(s) \in {"cancelled", "expired"}
       => /\ user_subscriptions'[s] # NoRow
          /\ user_subscriptions'[s].status = StatusOf(s)]_vars

\* C7: no step of a payment-completed or activated delivery that arrived
\* when its subscription was cancelled changes user_points or the number of
\* allocation records.
C7_NoCreditAfterCancel ==
  [][\A p \in Procs :
       (/\ IsWebhook(p)
        /\ req[p].event_type \in CreditEvents
        /\ req[p].status_at_delivery = "cancelled"
        /\ pc'[p] # pc[p])
       => /\ user_points' = user_points
          /\ \A u \in Users, s \in SubIds : Records(u, s)' = Records(u, s)]_vars

PermittedTransitions ==
  {<<"created", "active">>, <<"active", "suspended">>, <<"suspended", "active">>,
   <<"active", "cancelled">>}
  \cup {<<st, "expired">> : st \in {"created", "active", "suspended", "cancelled"}}

\* C8: every change of the status of an existing subscription record is
\* created->active, active->suspended, suspended->active, active->cancelled
\* or ->expired.
C8_PermittedTransitions ==
  [][\A s \in SubIds :
       (/\ user_subscriptions[s] # NoRow
        /\ user_subscriptions'[s] # NoRow
        /\ user_subscriptions'[s].status # user_subscriptions[s].status)
       => <<user_subscriptions[s].status, user_subscriptions'[s].status>>
            \in PermittedTransitions]_vars

\* C10: every answered delivery whose payload was well-formed and none of
\* whose storage operations failed got status 200, a delivery whose credit
\* was suppressed as a duplicate included.
C10_SuccessResponse ==
  \A p \in Procs :
    (/\ Ended(p) /\ IsWebhook(p)
     /\ req[p].well_formed
     /\ ~op_failed[p])
    => response[p] = 200

\* a delivery whose credit was suppressed as a duplicate has been answered
C10_Witness ==
  \E p \in Procs :
    /\ Ended(p) /\ IsWebhook(p)
    /\ req[p].well_formed /\ ~op_failed[p]
    /\ result[p] = "false"
    /\ response[p] = 200

\* C11: a delivery of a recognized type that lacks its correlating id (a
\* subscription-created event without subscriber email, a body that does not
\* parse) is answered with an error status, never with a 2xx one.
C11_MalformedRejected ==
  \A p \in Procs :
    (Ended(p) /\ IsWebhook(p) /\ ~req[p].well_formed)
    => ~(response[p] \in 200..299)

\* the six event types the receiver handles
HandledTypes ==
  {"BILLING.SUBSCRIPTION.CREATED", "BILLING.SUBSCRIPTION.ACTIVATED",
   "PAYMENT.SALE.COMPLETED", "BILLING.SUBSCRIPTION.CANCELLED",
   "BILLING.SUBSCRIPTION.SUSPENDED", "BILLING.SUBSCRIPTION.PAYMENT.FAILED"}

Unrecognized(r) ==
  /\ r.kind = "webhook"
  /\ r.event_type # "(unparseable)"
  /\ ~(r.event_type \in HandledTypes)

\* C12: no step of a delivery whose event_type is none of the six handled
\* types changes user_subscriptions, user_points or payment_history, and the
\* delivery is answered with a 2xx status.
C12_UnknownEventNoOp ==
  /\ [](\A p \in Procs :
          (Ended(p) /\ Unrecognized(req[p])) => response[p] \in 200..299)
  /\ [][\A p \in Procs :
          (Unrecognized(req'[p]) /\ pc'[p] # pc[p])
          => /\ user_subscriptions' = user_subscriptions
             /\ TablesUnchanged]_vars

\* a delivery of an unhandled event type has been answered
C12_Witness ==
  \E p \in Procs :
    /\ Ended(p) /\ Unrecognized(req[p])
    /\ response[p] = 200

\* the plan ids of the plan table
CatalogPlanIds ==
  {"P-5ML4271244454362WXNWU5NQ", "P-1GJ4899448696344MXNWU5NQ",
   "P-2RT4271244454362WXNWU5NQ"}

\* C13: a subscription-created event whose plan_id is not in the plan table
\* creates its record with plan_type free and status created; a credit for a
\* subscription of plan free adds 50 to the balance the call read; and such a
\* created event none of whose storage operations failed is answered 200.
C13_UnknownPlanDefaults ==
  /\ [](\A p \in Procs :
          (/\ Ended(p) /\ IsWebhook(p)
           /\ req[p].event_type = "BILLING.SUBSCRIPTION.CREATED"
           /\ req[p].well_formed /\ ~op_failed[p])
          => response[p] = 200)
  /\ [][\A p \in Procs :
          /\ (/\ pc[p] = "cr_upsert" /\ pc'[p] # pc[p]
              /\ ~(req[p].plan_id \in CatalogPlanIds)
              /\ user_subscriptions[req[p].sub] = NoRow
              /\ user_subscriptions'[req[p].sub] # NoRow)
             => /\ user_subscriptions'[req[p].sub].plan_type = "free"
                /\ user_subscriptions'[req[p].sub].status = "created"
          /\ (/\ pc[p] = "apwh_commit" /\ pc'[p] # pc[p]
              /\ IsWebhook(p) /\ result[p] = "true"
              /\ user_subscriptions[req[p].sub] # NoRow
              /\ user_subscriptions[req[p].sub].plan_type = "free")
             => /\ user_points'[req[p].user] # NoRow
                /\ user_points'[req[p].user].points_remaining
                     = current_points[p] + 50]_vars

\* a subscription created with an unknown plan has been credited
C13_Witness ==
  \E s \in SubIds, u \in Users :
    /\ user_subscriptions[s] # NoRow
    /\ user_subscriptions[s].plan_type = "free"
    /\ user_subscriptions[s].status = "active"
    /\ Records(u, s) >= 1
    /\ user_points[u] # NoRow
    /\ user_points[u].points_remaining = Before(u) + 50

\* C14: in every step, whichever of allocate_points_with_history and
\* add_points_to_user takes it, a user's row stays and its points_total does
\* not decrease.
C14_TotalMonotonic ==
  [][\A u \in Users :
       user_points[u] # NoRow
       => /\ user_points'[u] # NoRow
          /\ user_points'[u].points_total >= user_points[u].points_total]_vars

\* add_points_to_user has committed and a later credit wrote a smaller
\* balance than the total already reached
C14_Witness ==
  \E u \in Users :
    /\ user_points[u] # NoRow
    /\ \E p \in Procs : req[p].kind = "rpc_add" /\ req[p].user = u /\ result[p] = "added"
    /\ user_points[u].points_total > user_points[u].points_remaining
    /\ user_points[u].points_remaining > Before(u)

\* a credit call that has ended with its points written
Credited(p) ==
  /\ Ended(p)
  /\ \/ req[p].kind = "rpc" /\ result[p] = "true"
     \/ req[p].kind = "rpc_add" /\ result[p] = "added"

\* C15: the initial balances are not negative and the amounts are positive;
\* then points_remaining is not negative in any reachable state, in the
\* committed rows and in the rows a running call has written, whatever the
\* interleaving of the calls.
C15_NonNegative ==
  ((\A u \in Users : init_points[u] # NoRow => init_points[u].points_remaining >= 0)
    /\ (\A o \in Offers : o.points > 0))
  => /\ \A u \in Users :
          user_points[u] # NoRow => user_points[u].points_remaining >= 0
     /\ \A p \in Procs :
          pend_points[p] # NoRow => pend_points[p].points_remaining >= 0

\* two concurrent credits of one user have both ended, one overwriting the other
C15_Witness ==
  \E u \in Users :
    /\ \A p \in Procs : Credited(p) /\ req[p].user = u
    /\ user_points[u] # NoRow
    /\ user_points[u].points_remaining >= 0
    /\ user_points[u].points_remaining < Before(u) + SumPoints(Procs)

\* every call is an allocate_points_with_history call for u that has returned
\* without an error, and no two calls have the same subscription id
DistinctKeysDone(u) ==
  /\ \A p \in Procs :
        Ended(p) /\ IsAllocate(p) /\ result[p] # "error" /\ req[p].user = u
  /\ \A p, q \in Procs : p # q => req[p].sub # req[q].sub

\* C16: calls issued one after another for one user with pairwise different
\* subscription ids: once all have returned, points_remaining is the initial
\* balance plus the sum of the amounts and each key has exactly one
\* allocation record.
C16_SequentialAccumulate ==
  \A u \in Users :
    DistinctKeysDone(u)
    => /\ user_points[u] # NoRow
       /\ user_points[u].points_remaining = Before(u) + SumPoints(Procs)
       /\ \A p \in Procs : Records(u, req[p].sub) = 1

\* two sequential calls with different keys have both allocated
C16_Witness ==
  \E u \in Users :
    /\ DistinctKeysDone(u)
    /\ \A p \in Procs : result[p] = "true"
    /\ user_points[u] # NoRow
    /\ user_points[u].points_remaining = Before(u) + SumPoints(Procs)

\* C17: every paypal_subscription_id has at most one user_subscriptions row
\* (none exactly when the id has no record), and a step of a
\* subscription-created delivery for an id that already has a record leaves
\* the table as it is: no second row, status not reset to created.
C17_SubscriptionUnique ==
  /\ [](\A s \in SubIds :
          /\ sub_rows[s] <= 1
          /\ (sub_rows[s] = 0) <=> (user_subscriptions[s] = NoRow))
  /\ [][\A p \in Procs :
          (/\ IsWebhook(p)
           /\ req[p].event_type = "BILLING.SUBSCRIPTION.CREATED"
           /\ pc'[p] # pc[p]
           /\ user_subscriptions[req[p].sub] # NoRow)
          => /\ user_subscriptions' = user_subscriptions
             /\ sub_rows' = sub_rows]_vars

\* a subscription-created event redelivered for an activated subscription
\* has run its insert and been answered
C17_Witness ==
  \E p \in Procs :
    /\ Ended(p) /\ IsWebhook(p)
    /\ req[p].event_type = "BILLING.SUBSCRIPTION.CREATED"
    /\ req[p].well_formed /\ ~op_failed[p]
    /\ req[p].status_at_delivery = "active"
    /\ StatusOf(req[p].sub) = "active"
    /\ sub_rows[req[p].sub] = 1

\* from the duplicate check up to the release that follows the record insert
CriticalSection ==
  {"apwh_check", "apwh_ensure", "apwh_read", "apwh_update", "apwh_insert",
   "apwh_unlock"}

\* C18: two executions of allocate_points_with_history with the same
\* (user_id, subscription_id) are never both between the duplicate check and
\* the record insert, and the one that is there holds the lock of the key.
C18_MutualExclusion ==
  \A p, q \in Procs :
    (p # q /\ SameKey(p, q))
    => /\ ~(pc[p] \in CriticalSection /\ pc[q] \in CriticalSection)
       /\ pc[p] \in CriticalSection => advisory[Key(p)] = p

\* one execution is about to insert its record while another one for the
\* same key waits for the lock
C18_Witness ==
  \E p, q \in Procs :
    /\ p # q /\ SameKey(p, q)
    /\ pc[p] = "apwh_insert"
    /\ pc[q] = "apwh_lock"

\* p has inserted its record and released the lock of its key
InsertedAndReleased(p) ==
  /\ IsAllocate(p)
  /\ result[p] = "true"
  /\ pc[p] \in {"apwh_commit", "done"}

\* C19: once an execution has inserted its record for a key and released the
\* lock, no other execution for that key passes the duplicate check: its
\* check step does not go on to the balance statements.
C19_ReleaseAfterVisibility ==
  [][\A p, q \in Procs :
       (/\ p # q /\ SameKey(p, q)
        /\ InsertedAndReleased(p)
        /\ pc[q] = "apwh_check"
        /\ pc'[q] # pc[q])
       => pc'[q] # "apwh_ensure"]_vars

\* the execution of p has left the function body
Returned(p) == IsAllocate(p) /\ pc[p] \in {"apwh_commit", "done"}

C21_Termination ==
  \A p \in Procs :
    (pc[p] # "idle") ~> (Ended(p) /\ result[p] \in {"true", "false", "error"})

\* two concurrent calls of one user with different keys have both returned,
\* one having waited for the row the other had written
C21_Witness ==
  \E p, q \in Procs :
    /\ p # q
    /\ IsAllocate(p) /\ IsAllocate(q)
    /\ req[p].user = req[q].user /\ req[p].sub # req[q].sub
    /\ Ended(p) /\ result[p] = "true"
    /\ Ended(q) /\ result[q] = "true"
    /\ user_points[req[p].user].last_reset = req[p].now
    /\ req[p].now < req[q].now

\* the row allocate_points_with_history inserts for the call of p
OwnRecord(p) ==
  HistRow(req[p].user, req[p].sub, "atomic_allocation", req[p].amount)

IsPaymentCompleted(p) ==
  IsWebhook(p) /\ req[p].event_type = "PAYMENT.SALE.COMPLETED"

IsActivated(p) ==
  IsWebhook(p) /\ req[p].event_type = "BILLING.SUBSCRIPTION.ACTIVATED"

\* C24: an activated delivery goes on to the credit only by the step that
\* sets its subscription record to active with activated_at; it calls the
\* ledger with the subscription id of the event and the user of that record;
\* and the step in which the status update fails changes no record and ends
\* the handler without a credit.
C24_ActivationOrdering ==
  [][\A p \in Procs :
       (IsActivated(p) /\ pc'[p] # pc[p])
       => /\ pc'[p] = "aps_select"
             => /\ pc[p] = "act_update"
                /\ ~op_failed'[p]
                /\ user_subscriptions[req[p].sub] # NoRow
                   => /\ user_subscriptions'[req[p].sub].status = "active"
                      /\ user_subscriptions'[req[p].sub].activated_at
          /\ pc'[p] = "apwh_lock"
             => /\ pc[p] = "aps_select"
                /\ req'[p].sub = req[p].sub
                /\ user_subscriptions[req[p].sub] # NoRow
                /\ req'[p].user = user_subscriptions[req[p].sub].user_id
          /\ (pc[p] = "act_update" /\ op_failed'[p])
             => /\ pc'[p] = "respond_ok"
                /\ user_subscriptions' = user_subscriptions
                /\ TablesUnchanged]_vars

\* an activated delivery whose status update failed has been answered: the
\* record is still in status created and nothing was credited
C24_Witness ==
  \E p \in Procs :
    /\ Ended(p) /\ IsActivated(p)
    /\ op_failed[p] /\ result[p] = "none"
    /\ StatusOf(req[p].sub) = "created"
    /\ payment_history = EmptyBag
    /\ user_points = init_points

\* the point allocation of a plan
PlanPoints(plan_type) ==
  CASE plan_type = "free" -> 50
    [] plan_type = "pro" -> 1250
    [] plan_type = "business" -> 3500
    [] plan_type = "enterprise" -> 10000
    [] OTHER -> 50

\* C25: a payment-completed delivery calls the ledger with the point
\* allocation of the plan_type its subscription record has at that moment
\* and with the key (the record's user_id, the subscription id); a call that
\* then returns true commits the balance it read plus that amount; and when
\* no record exists for the subscription id the handler ends without
\* touching user_points or payment_history.
C25_PaymentCompletedAmount ==
  [][\A p \in Procs :
       (IsPaymentCompleted(p) /\ pc'[p] # pc[p])
       => /\ pc'[p] = "apwh_lock"
             => /\ user_subscriptions[req[p].sub] # NoRow
                /\ req'[p].points = PlanPoints(user_subscriptions[req[p].sub].plan_type)
                /\ req'[p].user = user_subscriptions[req[p].sub].user_id
                /\ req'[p].sub = req[p].sub
          /\ (pc[p] = "apwh_commit" /\ result[p] = "true")
             => /\ user_points'[req[p].user] # NoRow
                /\ user_points'[req[p].user].points_remaining
                     = current_points[p] + req[p].points
          /\ (pc[p] = "pc_select" /\ user_subscriptions[req[p].sub] = NoRow)
             => /\ pc'[p] = "respond_ok"
                /\ TablesUnchanged]_vars

\* a payment-completed delivery has credited a pro subscription
C25_Witness ==
  \E p \in Procs :
    /\ Ended(p) /\ IsPaymentCompleted(p)
    /\ result[p] = "true"
    /\ user_subscriptions[req[p].sub] # NoRow
    /\ user_subscriptions[req[p].sub].plan_type = "pro"
    /\ LET u == user_subscriptions[req[p].sub].user_id
       IN  /\ user_points[u] # NoRow
           /\ user_points[u].points_remaining = Before(u) + 1250

IsCancelled(p) ==
  IsWebhook(p) /\ req[p].event_type = "BILLING.SUBSCRIPTION.CANCELLED"

IsSuspended(p) ==
  IsWebhook(p) /\ req[p].event_type = "BILLING.SUBSCRIPTION.SUSPENDED"

\* the record differs from the old one in its status and that timestamp only
OnlyStatusChanged(old, new, st, stamp) ==
  /\ new # NoRow
  /\ new.status = st
  /\ new.user_id = old.user_id
  /\ new.plan_type = old.plan_type
  /\ new.activated_at = old.activated_at
  /\ stamp = "cancelled_at" => new.cancelled_at /\ new.suspended_at = old.suspended_at
  /\ stamp = "suspended_at" => new.suspended_at /\ new.cancelled_at = old.cancelled_at

\* C26: a step of a cancelled or suspended delivery leaves user_points and
\* payment_history as they are, adds or removes no subscription record,
\* leaves the records of other subscription ids alone, and changes the
\* record of its own id, if at all, in status and cancelled_at /
\* suspended_at only; such a delivery never reaches the ledger.
C26_CancelSuspendFrame ==
  /\ [](\A p \in Procs :
          (IsCancelled(p) \/ IsSuspended(p))
          => pc[p] \in {"can_update", "sus_update", "respond_ok", "done"})
  /\ [][\A p \in Procs :
          ((IsCancelled(p) \/ IsSuspended(p)) /\ pc'[p] # pc[p])
          => /\ TablesUnchanged
             /\ sub_rows' = sub_rows
             /\ \A s \in SubIds \ {req[p].sub} :
                  user_subscriptions'[s] = user_subscriptions[s]
             /\ LET old == user_subscriptions[req[p].sub]
                    new == user_subscriptions'[req[p].sub]
                IN  \/ new = old
                    \/ /\ old # NoRow
                       /\ IF IsCancelled(p)
                          THEN OnlyStatusChanged(old, new, "cancelled", "cancelled_at")
                          ELSE OnlyStatusChanged(old, new, "suspended", "suspended_at")]_vars

\* one subscription has been cancelled while another subscription's record
\* is as it was created
C26_Witness ==
  \E p \in Procs, s \in SubIds :
    /\ Ended(p) /\ IsCancelled(p) /\ ~op_failed[p]
    /\ s # req[p].sub
    /\ StatusOf(req[p].sub) = "cancelled"
    /\ user_subscriptions[req[p].sub].cancelled_at
    /\ StatusOf(s) = "created"
    /\ payment_history = EmptyBag
    /\ user_points = init_points

IsPaymentFailed(p) ==
  IsWebhook(p) /\ req[p].event_type = "BILLING.SUBSCRIPTION.PAYMENT.FAILED"

\* the failure row handlePaymentFailed writes for subscription s of user u
FailureRow(u, s) == HistRow(u, s, "payment_failed", NullAmount)

\* C27: a step of a payment-failed delivery leaves user_subscriptions and
\* user_points as they are and changes payment_history, if at all, by one
\* payment_failed row for the user of the subscription record, in the one
\* step that ends the handler; the number of allocation records and the
\* count of the ledger's duplicate check stay the same for every key.
C27_PaymentFailedFrame ==
  [][\A p \in Procs :
       (IsPaymentFailed(p) /\ pc'[p] # pc[p])
       => /\ user_subscriptions' = user_subscriptions
          /\ sub_rows' = sub_rows
          /\ user_points' = user_points
          /\ \/ payment_history' = payment_history
             \/ /\ pc[p] = "pf_insert" /\ pc'[p] = "respond_ok"
                /\ user_subscriptions[req[p].sub] # NoRow
                /\ payment_history' = payment_history (+)
                     SetToBag({FailureRow(user_subscriptions[req[p].sub].user_id,
                                          req[p].sub)})
          /\ \A u \in Users, s \in SubIds :
               /\ Records(u, s)' = Records(u, s)
               /\ ExistingCount(payment_history', u, s)
                    = ExistingCount(payment_history, u, s)]_vars

\* a failed payment was recorded for a subscription and a later activation
\* of the same subscription still credited
C27_Witness ==
  \E p, q \in Procs :
    /\ Ended(p) /\ IsPaymentFailed(p) /\ ~op_failed[p]
    /\ Ended(q) /\ IsActivated(q) /\ req[q].sub = req[p].sub
    /\ result[q] = "true"
    /\ \E u \in Users :
         /\ BagIn(FailureRow(u, req[p].sub), payment_history)
         /\ Records(u, req[p].sub) = 1

\* C28: the step that gives a user without a user_points row their row is
\* the commit of a successful credit of some amount A and leaves
\* points_remaining = points_total = 50 + A; a credit that changes the row of
\* a user who has one writes the balance it read plus its amount, never the
\* default or the default plus its amount.
C28_LazyBalanceCreation ==
  [][\A u \in Users :
       user_points'[u] # user_points[u]
       => \E p \in Procs :
            /\ pc[p] = "apwh_commit" /\ pc'[p] = "done"
            /\ result[p] = "true" /\ req[p].user = u
            /\ user_points'[u] # NoRow
            /\ IF user_points[u] = NoRow
               THEN /\ user_points'[u].points_remaining = 50 + req[p].points
                    /\ user_points'[u].points_total = 50 + req[p].points
               ELSE /\ user_points'[u].points_remaining
                         = current_points[p] + req[p].points
                    /\ user_points'[u].points_remaining # 50 + req[p].points
                    /\ user_points'[u].points_remaining # 50]_vars

\* the first credit of a user who had no row has committed
C28_Witness ==
  \E u \in Users, p \in Procs :
    /\ init_points[u] = NoRow
    /\ Ended(p) /\ IsAllocate(p) /\ result[p] = "true" /\ req[p].user = u
    /\ user_points[u] # NoRow
    /\ user_points[u].points_remaining = 50 + req[p].points
    /\ user_points[u].points_total = 50 + req[p].points

\* the subscription ids that have a record of user u
SubscriptionsOf(u) ==
  {s \in SubIds : user_subscriptions[s] # NoRow /\ user_subscriptions[s].user_id = u}

\* nothing, or the point allocation of one plan
OneAllocation == {0, 50, 1250, 3500, 10000}

\* C29: whatever runs of the client handler and deliveries of the webhook
\* have happened, the points_remaining of a user with at most one
\* subscription exceeds its initial value by one plan allocation at most.
C29_OneCreditPerSubscription ==
  \A u \in Users :
    Cardinality(SubscriptionsOf(u)) <= 1
    => (Remaining(u) - Before(u)) \in OneAllocation

\* C30: publishToWordPress is called at most once for each post, and no
\* call is made for a post whose status is published or failed.
C30_PublishedAtMostOnce ==
  /\ [](\A x \in PostIds : publish_calls[x] <= 1)
  /\ [][\A x \in PostIds :
          publish_calls'[x] # publish_calls[x] => post_status[x] = "pending"]_vars

====
